---- MODULE Spec2Model ----
(***************************************************************************)
(* Save-Syncer (main.py): definition parsing, timestamp inspection and the *)
(* backup-then-copy sync, modelled over an abstract filesystem.            *)
(*                                                                         *)
(* The filesystem is a set of entries [path, kind, data, mtime]; a path is *)
(* a sequence of names below the root.  Library calls (pathlib, shutil,    *)
(* os) are modelled by what they do to that set, a rejected call being a   *)
(* nondeterministic outcome.  The prompts of choose() and input() appear   *)
(* as the values they return; console output and KeyboardInterrupt are     *)
(* left out.                                                               *)
(***************************************************************************)
EXTENDS Naturals, Sequences, FiniteSets

VARIABLES
    fs,         \* the filesystem: a set of entries
    pc,         \* position of the process
    games,      \* GAMES_DIR: "missing", or the sequence of definition texts in it
    text,       \* text of the definition file being parsed
    defs,       \* result of parse_definition: a definition, or DefinitionError
    os_guess,   \* "windows" / "linux" once chosen
    direction,  \* "w2l" (windows->linux) / "l2w" once chosen
    now,        \* the clock, in seconds
    fsStart,    \* the filesystem when the process started
    fsPre,      \* the filesystem when perform / backup was last entered
    hist,       \* what the run has done so far
    lm,         \* latest_mtime: the state of one scan
    calls       \* number of backup calls made (repeated-backup specification)

vars == <<fs, pc, games, text, defs, os_guess, direction, now, fsStart, fsPre, hist, lm, calls>>

(***************************************************************************)
(* Paths and filesystem entries                                            *)
(***************************************************************************)
IsPrefix(p, q) == Len(p) <= Len(q) /\ SubSeq(q, 1, Len(p)) = p

Parent(p) == SubSeq(p, 1, Len(p) - 1)

Name(p) == p[Len(p)]

Exists(f, p) == p = <<>> \/ \E e \in f : e.path = p

IsDir(f, p) == p = <<>> \/ \E e \in f : e.path = p /\ e.kind = "dir"

IsFile(f, p) == \E e \in f : e.path = p /\ e.kind = "file"

Subtree(f, p) == {e \in f : IsPrefix(p, e.path)}

Rebase(e, from, to) ==
    [e EXCEPT !.path = to \o SubSeq(e.path, Len(from) + 1, Len(e.path))]

RebaseAll(S, from, to) == {Rebase(e, from, to) : e \in S}

\* The tree at p with paths made relative to p: what "the content at p" is.
RelTree(f, p) == {[path |-> SubSeq(e.path, Len(p) + 1, Len(e.path)),
                   kind |-> e.kind, data |-> e.data] : e \in Subtree(f, p)}

\* Subsets of a tree that contain, with an entry, every ancestor of it in the tree.
AncestorClosed(S) ==
    {T \in SUBSET S : \A e \in T : \A a \in S : IsPrefix(a.path, e.path) => a \in T}

\* Subsets of a tree that contain, with an entry, every descendant of it.
DescendantClosed(S) ==
    {T \in SUBSET S : \A e \in T : \A d \in S : IsPrefix(e.path, d.path) => d \in T}

Outcome(f, r) == [fs |-> f, raised |-> r]

(***************************************************************************)
(* Library calls, by their effect on the filesystem.  Each returns the set *)
(* of its possible outcomes [fs, raised]: the call may be rejected by the  *)
(* operating system (permissions, disk full, a locked file).               *)
(***************************************************************************)
Prefixes(p) == {SubSeq(p, 1, k) : k \in 1..Len(p)}

NewDir(q, t) == [path |-> q, kind |-> "dir", data |-> "", mtime |-> t]

\* Entries of E written over g: an entry replaces what was at its path.
Put(g, E) == {x \in g : \A e \in E : e.path # x.path} \cup E

\* Path.mkdir(parents=True, exist_ok=True) / os.makedirs(p, exist_ok=True):
\* creates the missing directories from the top; a file in the way or a
\* rejected os.mkdir raises, the directories made so far staying.
mkdir_parents(f, p, t) ==
    LET missing  == {q \in Prefixes(p) : ~Exists(f, q)}
        made(k)  == f \cup {NewDir(q, t) : q \in {m \in missing : Len(m) <= k}}
        blocked  == \E q \in Prefixes(p) : IsFile(f, q)
    IN  IF blocked THEN {Outcome(f, TRUE)}
        ELSE {Outcome(made(Len(p)), FALSE)}
             \cup {Outcome(made(Len(q) - 1), TRUE) : q \in missing}

mkdir_fresh(f, p, t) == {Outcome((f \ Subtree(f, p)) \cup {NewDir(p, t)}, FALSE)}

\* Path.mkdir(exist_ok=True): one directory, its parent must exist.
mkdir_exist_ok(f, p, t) ==
    IF IsDir(f, p) THEN {Outcome(f, FALSE)}
    ELSE IF Exists(f, p) \/ ~IsDir(f, Parent(p)) THEN {Outcome(f, TRUE)}
    ELSE {Outcome(f \cup {NewDir(p, t)}, FALSE), Outcome(f, TRUE)}

\* shutil.copy2(src, dst): content and modification time; dst a directory
\* means dst/<name of src>.  A rejected write may leave a truncated file.
copy2(f, src, dst) ==
    LET target == IF IsDir(f, dst) THEN Append(dst, Name(src)) ELSE dst
        e      == CHOOSE x \in f : x.path = src
    IN  IF ~IsFile(f, src) \/ ~IsDir(f, Parent(target)) \/ IsDir(f, target)
        THEN {Outcome(f, TRUE)}
        ELSE {Outcome(Put(f, {[e EXCEPT !.path = target]}), FALSE),
              Outcome(Put(f, {[e EXCEPT !.path = target, !.data = "truncated"]}), TRUE),
              Outcome(f, TRUE)}

\* shutil.copytree(src, dst, dirs_exist_ok=ok): the entries of src are listed
\* before dst is made; every entry is attempted, the failures are collected
\* and raised at the end, so any ancestor-closed part of the tree may arrive.
copytree(f, src, dst, ok, t) ==
    LET S    == Subtree(f, src)
        top  == IF Exists(f, dst) /\ (~ok \/ ~IsDir(f, dst))
                THEN {Outcome(f, TRUE)}
                ELSE mkdir_parents(f, dst, t)
        fits(g, T) == \A e \in RebaseAll(T, src, dst) :
                         ~\E x \in g : x.path = e.path /\ x.kind # e.kind
    IN  UNION {IF m.raised THEN {m}
               ELSE {Outcome(Put(m.fs, RebaseAll(T, src, dst)), T # S) :
                       T \in {U \in AncestorClosed(S) : U # {} /\ fits(m.fs, U)}}
               : m \in top}

\* shutil.rmtree(p): children before their directory, stopping at the first
\* entry that cannot be removed.
rmtree(f, p) ==
    LET S == Subtree(f, p)
    IN  {Outcome(f \ R, R # S) : R \in DescendantClosed(S)}

\* os.rename(src, dst): one atomic step.  It cannot put a directory over a
\* file or inside itself, and may be rejected (another device, permissions).
rename_allowed(f, src, dst) ==
    /\ ~(IsDir(f, src) /\ IsFile(f, dst))
    /\ ~IsPrefix(src, dst)
    /\ IsDir(f, Parent(dst))

rename(f, src, dst) ==
    (f \ (Subtree(f, src) \cup Subtree(f, dst))) \cup RebaseAll(Subtree(f, src), src, dst)

\* shutil.move(src, dst): into dst when dst is a directory; os.rename, and
\* when that raises OSError, copy (copytree / copy2) then delete.
move(f, src, dst, t) ==
    LET real_dst == IF IsDir(f, dst) THEN Append(dst, Name(src)) ELSE dst
        renamed  == IF rename_allowed(f, src, real_dst)
                    THEN {Outcome(rename(f, src, real_dst), FALSE)} ELSE {}
        copied   == IF IsDir(f, src)
                    THEN IF IsPrefix(src, real_dst) THEN {Outcome(f, TRUE)}
                         ELSE copytree(f, src, real_dst, FALSE, t)
                    ELSE copy2(f, src, real_dst)
        fallback == UNION {IF c.raised THEN {c}
                           ELSE IF IsDir(f, src) THEN rmtree(c.fs, src)
                           ELSE {Outcome(c.fs \ Subtree(c.fs, src), FALSE), Outcome(c.fs, TRUE)}
                           : c \in copied}
    IN  IF IsDir(f, dst) /\ Exists(f, real_dst) THEN {Outcome(f, TRUE)}
        ELSE renamed \cup fallback

(***************************************************************************)
(* Definition Parser.  A line is a sequence of tokens: words, " " (white   *)
(* space) and ":"; a text is a sequence of lines (str.splitlines).         *)
(***************************************************************************)
sections == {<<"WINDOWS">>, <<"LINUX">>}

keys == {<<"windows">>, <<"linux">>}

\* str.upper / str.lower on one token.
UpperTok(w) ==
    CASE w \in {"WINDOWS", "Windows", "windows"} -> "WINDOWS"
      [] w \in {"LINUX", "Linux", "linux"}       -> "LINUX"
      [] w \in {"MAC", "mac"}                    -> "MAC"
      [] w \in {"JUNK", "junk"}                  -> "JUNK"
      [] w = "/a"                                -> "/A"
      [] w = "/b"                                -> "/B"
      [] w = "/a/s"                              -> "/A/S"
      [] OTHER                                   -> w

LowerTok(w) ==
    CASE w \in {"WINDOWS", "Windows", "windows"} -> "windows"
      [] w \in {"LINUX", "Linux", "linux"}       -> "linux"
      [] w \in {"MAC", "mac"}                    -> "mac"
      [] w \in {"JUNK", "junk"}                  -> "junk"
      [] OTHER                                   -> w

upper(line) == [i \in 1..Len(line) |-> UpperTok(line[i])]

lower_as_written(line) == line

lower(line) == [i \in 1..Len(line) |-> LowerTok(line[i])]

\* str.strip: white space off both ends, kept inside.
RECURSIVE lstrip(_)
lstrip(line) ==
    IF line # <<>> /\ Head(line) = " " THEN lstrip(Tail(line)) ELSE line

RECURSIVE rstrip(_)
rstrip(line) ==
    IF line # <<>> /\ line[Len(line)] = " "
    THEN rstrip(SubSeq(line, 1, Len(line) - 1)) ELSE line

strip(line) == rstrip(lstrip(line))

HasColon(line) == \E i \in 1..Len(line) : line[i] = ":"

FirstColon(line) ==
    CHOOSE i \in 1..Len(line) : line[i] = ":" /\ \A j \in 1..(i - 1) : line[j] # ":"

\* line.split(":", 1) with both halves stripped.
split_key(line) == strip(SubSeq(line, 1, FirstColon(line) - 1))

split_val(line) == strip(SubSeq(line, FirstColon(line) + 1, Len(line)))

EmptyDict == [k \in {} |-> <<>>]

DictSet(d, k, v) == [x \in DOMAIN d \cup {k} |-> IF x = k THEN v ELSE d[x]]

NoSection == <<>>

DefinitionError(msg) == [error |-> msg, data |-> [s \in sections |-> EmptyDict]]

\* The loop of parse_definition from line i on.
RECURSIVE scan(_, _, _, _)
scan(lines, i, current, data) ==
    IF i > Len(lines) THEN [error |-> "", data |-> data]
    ELSE LET line == strip(lines[i])
             up   == upper(line)
         IN  IF line = <<>> THEN scan(lines, i + 1, current, data)
             ELSE IF up \in sections THEN scan(lines, i + 1, up, data)
             ELSE IF current = NoSection \/ ~HasColon(line)
                  THEN DefinitionError("malformed line")
             ELSE LET key == lower(split_key(line))
                      val == split_val(line)
                  IN  IF key \notin keys THEN DefinitionError("unknown sub-key")
                      ELSE scan(lines, i + 1, current,
                                [data EXCEPT ![current] = DictSet(@, key, val)])

parse_definition(lines) ==
    LET r == scan(lines, 1, NoSection, [s \in sections |-> EmptyDict])
    IN  IF r.error # "" THEN r
        ELSE IF \E s \in sections : DOMAIN r.data[s] # keys
             THEN DefinitionError("section must contain both")
        ELSE r

(***************************************************************************)
(* Settings and the filesystem helpers of main.py                          *)
(***************************************************************************)
TRASH_DIR == <<"Trash">>

\* Clock ticks per second: datetime.now() is finer than the stamp's seconds.
TicksPerSecond == 2

StampNames == <<"t0", "t1", "t2", "t3", "t4", "t5", "t6", "t7">>

\* datetime.now().strftime("%Y-%m-%d_%H-%M-%S"): the clock cut to whole seconds.
strftime(t) == StampNames[(t \div TicksPerSecond) + 1]

\* Path(<value of the definition>): the path a value names.
PathOf(val) ==
    CASE val = <<"/a">>   -> <<"a">>
      [] val = <<"/b">>   -> <<"b">>
      [] val = <<"/a/s">> -> <<"a", "s">>

backup_delete(f, dst, game, t) ==
    IF ~Exists(f, dst) THEN {Outcome(f, FALSE)}
    ELSE {Outcome(f \ Subtree(f, dst), FALSE)}

backup_eager(f, dst, game, t) ==
    LET dest == TRASH_DIR \o <<strftime(t), game>>
    IN  UNION {IF m.raised \/ ~Exists(f, dst) THEN {m}
               ELSE move(m.fs, dst, Append(dest, Name(dst)), t)
               : m \in mkdir_parents(f, dest, t)}

backup(f, dst, game, t) ==
    IF ~Exists(f, dst) THEN {Outcome(f, FALSE)}
    ELSE LET dest == TRASH_DIR \o <<strftime(t), game>>
         IN  UNION {IF m.raised THEN {m}
                    ELSE move(m.fs, dst, Append(dest, Name(dst)), t)
                    : m \in mkdir_parents(f, dest, t)}

copy(f, src, dst, t) ==
    IF IsDir(f, src) THEN copytree(f, src, dst, TRUE, t)
    ELSE UNION {IF m.raised THEN {m} ELSE copy2(m.fs, src, dst)
                : m \in mkdir_parents(f, Parent(dst), t)}

(***************************************************************************)
(* Timestamp Inspector                                                     *)
(***************************************************************************)
\* Local-time shift of the zone while daylight saving lasts, and the instant it ends.
DstShift == 2

DstEnd == 2

\* datetime.fromtimestamp(t): the naive local time of instant t.
fromtimestamp(t) == IF t < DstEnd THEN t + DstShift ELSE t

Max(S) == CHOOSE x \in S : \A y \in S : y <= x

\* latest_mtime with nothing else touching the tree: {} is None.
latest_mtime(f, path) ==
    IF ~Exists(f, path) THEN {}
    ELSE {Max({fromtimestamp(e.mtime) : e \in Subtree(f, path)})}

(***************************************************************************)
(* Initial filesystems and definition files                                *)
(***************************************************************************)
File(p, d, t) == {[path |-> p, kind |-> "file", data |-> d, mtime |-> t]}

\* A save directory: one file, and a subdirectory s holding another.
DirTree(p, d1, d2, t) ==
    {NewDir(p, t), NewDir(Append(p, "s"), t)}
    \cup File(Append(p, "f1"), d1, t) \cup File(p \o <<"s", "f2">>, d2, t + 1)

TreesA == {{}, File(<<"a">>, "A0", 1), DirTree(<<"a">>, "A1", "A2", 1)}

TreesB == {{}, File(<<"b">>, "B0", 0), DirTree(<<"b">>, "B1", "B2", 3)}

GameName == "g"

\* What an earlier run left in the trash in second t0, under the name n.
PriorBackup(n, kind) ==
    LET dest == TRASH_DIR \o <<"t0", GameName>>
    IN  {NewDir(q, 0) : q \in Prefixes(dest)}
        \cup IF kind = "file" THEN File(Append(dest, n), "O0", 0)
             ELSE DirTree(Append(dest, n), "O1", "O2", 0)

TrashStates ==
    {{}, {NewDir(TRASH_DIR, 0)}}
    \cup {PriorBackup(n, k) : n \in {"a", "b"}, k \in {"file", "dir"}}

InitialFs == {a \cup b \cup tr : a \in TreesA, b \in TreesB, tr \in TrashStates}

PathToks == {"/a", "/b", "/a/s"}

\* A well-formed definition: section WINDOWS maps windows to p and linux to q,
\* section LINUX maps windows to q and linux to p.
GoodText(p, q) ==
    << <<"WINDOWS">>,
       <<"windows", ":", " ", p>>,
       <<"linux", ":", q>>,
       <<>>,
       <<" ", "linux">>,
       <<"Windows", " ", ":", q>>,
       <<"LINUX", ":", p, " ">> >>

BadTexts ==
    { SubSeq(GoodText("/a", "/b"), 1, 6),
      Append(GoodText("/a", "/b"), <<"mac", ":", "/a">>),
      <<<<"windows", ":", "/a">>>> \o GoodText("/a", "/b"),
      Append(GoodText("/a", "/b"), <<"junk">>) }

DefTexts == {GoodText(p, q) : p \in PathToks, q \in PathToks} \cup BadTexts

GameDirs ==
    {[present |-> FALSE, files |-> <<>>], [present |-> TRUE, files |-> <<>>]}
    \cup {[present |-> TRUE, files |-> <<t>>] : t \in DefTexts}

NoHist ==
    [src |-> <<>>, dst |-> <<>>, backup |-> "none", copy |-> "none",
     reason |-> "", w_time |-> {}, l_time |-> {},
     newer_is_win |-> FALSE, newer_is_lin |-> FALSE]

NoScan ==
    [path |-> <<>>, newest |-> {}, todo |-> <<>>, queue |-> <<>>, result |-> {},
     build |-> "", aborted |-> FALSE]

(***************************************************************************)
(* The process: the __main__ block, main and perform                       *)
(***************************************************************************)
Init ==
    /\ fs \in InitialFs
    /\ games \in GameDirs
    /\ pc = "start"
    /\ text = <<>>
    /\ defs = DefinitionError("")
    /\ os_guess = <<>>
    /\ direction = ""
    /\ now = 0
    /\ fsStart = fs
    /\ fsPre = fs
    /\ hist = NoHist
    /\ lm = NoScan
    /\ calls = 0

\* __main__: TRASH_DIR.mkdir(exist_ok=True), then main(); an exception other
\* than KeyboardInterrupt ends the process with a traceback.
Start ==
    /\ pc = "start"
    /\ \E o \in mkdir_exist_ok(fs, TRASH_DIR, now) :
          /\ fs' = o.fs
          /\ pc' = IF o.raised THEN "exit1" ELSE "main"
          /\ hist' = [hist EXCEPT !.reason = IF o.raised THEN "traceback" ELSE @]
    /\ UNCHANGED <<games, text, defs, os_guess, direction, now, fsStart, fsPre, lm, calls>>

\* main: the definitions folder, its *.txt files, the game chosen.
SelectGame ==
    /\ pc = "main"
    /\ IF ~games.present
       THEN pc' = "exit1" /\ hist' = [hist EXCEPT !.reason = "no folder"] /\ text' = text
       ELSE IF games.files = <<>>
       THEN pc' = "exit1" /\ hist' = [hist EXCEPT !.reason = "no files"] /\ text' = text
       ELSE \E i \in 1..Len(games.files) :
               pc' = "parse" /\ text' = games.files[i] /\ hist' = hist
    /\ UNCHANGED <<fs, games, defs, os_guess, direction, now, fsStart, fsPre, lm, calls>>

\* main: parse_definition, DefinitionError turned into sys.exit(message).
ParseGame ==
    /\ pc = "parse"
    /\ defs' = parse_definition(text)
    /\ pc' = IF defs'.error # "" THEN "exit1" ELSE "os"
    /\ hist' = [hist EXCEPT !.reason = IF defs'.error # "" THEN "definition error" ELSE @]
    /\ UNCHANGED <<fs, games, text, os_guess, direction, now, fsStart, fsPre, lm, calls>>

\* main: the detected OS, or the user's override.
ChooseOs ==
    /\ pc = "os"
    /\ \E o \in keys : os_guess' = o
    /\ pc' = "times"
    /\ UNCHANGED <<fs, games, text, defs, direction, now, fsStart, fsPre, hist, lm, calls>>

\* main: "(a and b and a > b) or (a and not b)" on two optional times.
newer(a, b) == (a # {} /\ b # {} /\ \E x \in a, y \in b : x > y) \/ (a # {} /\ b = {})

\* main: the two timestamps, shown once; nothing is written.
ShowTimestamps ==
    /\ pc = "times"
    /\ LET section == upper(os_guess)
           w_time  == latest_mtime(fs, PathOf(defs.data[section][<<"windows">>]))
           l_time  == latest_mtime(fs, PathOf(defs.data[section][<<"linux">>]))
       IN  hist' = [hist EXCEPT
                      !.w_time = w_time,
                      !.l_time = l_time,
                      !.newer_is_win = newer(w_time, l_time),
                      !.newer_is_lin = newer(l_time, w_time)]
    /\ pc' = "direction"
    /\ UNCHANGED <<fs, games, text, defs, os_guess, direction, now, fsStart, fsPre, lm, calls>>

ChooseDirection ==
    /\ pc = "direction"
    /\ \E d \in {"windows->linux", "linux->windows"} : direction' = d
    /\ pc' = "perform"
    /\ UNCHANGED <<fs, games, text, defs, os_guess, now, fsStart, fsPre, hist, lm, calls>>

source_always_there(f, src) == FALSE

\* perform: "if not src.exists()".
source_missing(f, src) == ~Exists(f, src)

\* perform, up to the source check: the paths resolved, the source looked at.
PerformCheck ==
    /\ pc = "perform"
    /\ LET section == upper(os_guess)
           src_key == IF direction = "windows->linux" THEN <<"windows">> ELSE <<"linux">>
           dst_key == IF direction = "windows->linux" THEN <<"linux">> ELSE <<"windows">>
           src     == PathOf(defs.data[section][src_key])
           dst     == PathOf(defs.data[section][dst_key])
       IN  /\ hist' = [hist EXCEPT !.src = src, !.dst = dst,
                          !.reason = IF source_missing(fs, src) THEN "source missing" ELSE @]
           /\ pc' = IF source_missing(fs, src) THEN "exit0" ELSE "backup"
    /\ fsPre' = fs
    /\ UNCHANGED <<fs, games, text, defs, os_guess, direction, now, fsStart, lm, calls>>

\* perform: backup(dst, game); what it raises is not caught anywhere.
PerformBackup ==
    /\ pc = "backup"
    /\ \E o \in backup(fs, hist.dst, GameName, now) :
          /\ fs' = o.fs
          /\ pc' = IF o.raised THEN "exit1" ELSE "copy"
          /\ hist' = [hist EXCEPT !.backup = IF o.raised THEN "raised" ELSE "returned",
                                  !.reason = IF o.raised THEN "traceback" ELSE @]
    /\ UNCHANGED <<games, text, defs, os_guess, direction, now, fsStart, fsPre, lm, calls>>

\* perform: copy(src, dst) inside try / except Exception.
PerformCopy ==
    /\ pc = "copy"
    /\ \E o \in copy(fs, hist.src, hist.dst, now) :
          /\ fs' = o.fs
          /\ hist' = [hist EXCEPT !.copy = IF o.raised THEN "failed" ELSE "ok",
                                  !.reason = IF o.raised THEN "copy failed" ELSE "sync complete"]
    /\ pc' = "exit0"
    /\ UNCHANGED <<games, text, defs, os_guess, direction, now, fsStart, fsPre, lm, calls>>

Next ==
    \/ Start
    \/ SelectGame
    \/ ParseGame
    \/ ChooseOs
    \/ ShowTimestamps
    \/ ChooseDirection
    \/ PerformCheck
    \/ PerformBackup
    \/ PerformCopy

Spec == Init /\ [][Next]_vars

(***************************************************************************)
(* Properties of a run (specification Spec)                                *)
(***************************************************************************)
\* Where backup puts the target of this run.
TrashSlot == TRASH_DIR \o <<strftime(now), GameName, Name(hist.dst)>>

\* The content the target had when perform started is in the trash, at or below its slot.
Preserved ==
    \E e \in fs : /\ IsPrefix(TrashSlot, e.path)
                  /\ RelTree(fs, e.path) = RelTree(fsPre, hist.dst)

Entered == hist.src # <<>>

\* The two paths of the run name unrelated places: neither is the other or inside it.
Apart == ~IsPrefix(hist.src, hist.dst) /\ ~IsPrefix(hist.dst, hist.src)

\* C1: copy runs on the target only after backup has returned for it, and from
\* then on (a failed copy included) what was at the target when perform started
\* is in the trash under <trash>/<stamp>/<game>/<name of the target>.
C1_PreservedBeforeOverwrite ==
    /\ (pc = "copy" \/ hist.copy # "none") => hist.backup = "returned"
    /\ (hist.backup = "returned" /\ Exists(fsPre, hist.dst)) => Preserved

C1_Witness ==
    /\ pc = "exit0" /\ hist.copy = "failed"
    /\ IsDir(fsPre, hist.dst) /\ hist.src # hist.dst
    /\ Subtree(fs, hist.dst) # {}
    /\ Preserved

\* C2: source and target both there and no call rejected: the run ends with the
\* original target content in the trash and an exact copy of the source at the target.
C2_ExactCopy ==
    (pc = "exit0" /\ hist.copy = "ok" /\ Exists(fsPre, hist.src) /\ Exists(fsPre, hist.dst))
        => /\ Preserved
           /\ RelTree(fs, hist.dst) = RelTree(fsPre, hist.src)

\* C3: source missing when perform is called: perform returns without backup or
\* copy, the target and the whole trash being as before the call.
C3_MissingSourceNoEffect ==
    (Entered /\ ~Exists(fsPre, hist.src))
        => /\ pc = "exit0"
           /\ hist.backup = "none" /\ hist.copy = "none"
           /\ fs = fsPre

C3_Witness ==
    /\ pc = "exit0" /\ hist.reason = "source missing"
    /\ IsDir(fs, hist.dst)
    /\ Subtree(fs, TRASH_DIR \o <<"t0">>) # {}

\* C4: once a definition has been parsed, the run ends with exit status zero
\* whether or not the backup and the copy succeed.
C4_ZeroExitAfterParse ==
    (os_guess # <<>> /\ Apart) => pc # "exit1"

C7_BackupAllOrNothing ==
    (hist.backup = "raised" /\ Apart)
        => \/ Subtree(fs, hist.dst) = Subtree(fsPre, hist.dst)
           \/ (~Exists(fs, hist.dst) /\ Preserved)

\* C10: perform only reads the source: after it returns, the source holds what
\* it held before, whatever the two paths of the section are.
C10_SourceUnchanged ==
    (pc = "exit0" /\ Entered /\ Exists(fsPre, hist.src))
        => RelTree(fs, hist.src) = RelTree(fsPre, hist.src)

(***************************************************************************)
(* backup called again and again on one target (specification SpecBackup)  *)
(***************************************************************************)
MaxCalls == 2

MaxNow == 2

InitBackup ==
    /\ fs \in InitialFs
    /\ \E d \in {PathOf(<<v>>) : v \in PathToks} : hist = [NoHist EXCEPT !.dst = d]
    /\ pc = "idle"
    /\ games = [present |-> FALSE, files |-> <<>>]
    /\ text = <<>>
    /\ defs = DefinitionError("")
    /\ os_guess = <<>>
    /\ direction = ""
    /\ now = 0
    /\ fsStart = fs
    /\ fsPre = fs
    /\ lm = NoScan
    /\ calls = 0

\* backup(dst, game), from its call to its return or its exception.
BackupCall ==
    /\ pc \in {"idle", "returned", "raised"}
    /\ calls < MaxCalls
    /\ calls' = calls + 1
    /\ fsPre' = fs
    /\ \E o \in backup(fs, hist.dst, GameName, now) :
          /\ fs' = o.fs
          /\ pc' = IF o.raised THEN "raised" ELSE "returned"
    /\ UNCHANGED <<games, text, defs, os_guess, direction, now, fsStart, hist, lm>>

\* Time passes between two calls.
Tick ==
    /\ pc \in {"idle", "returned", "raised"}
    /\ now < MaxNow
    /\ now' = now + 1
    /\ pc' = "idle"
    /\ UNCHANGED <<fs, games, text, defs, os_guess, direction, fsStart, fsPre, hist, lm, calls>>

\* The game writes a new save where the old one was moved away.
NewSave ==
    /\ pc \in {"returned", "raised"}
    /\ ~Exists(fs, hist.dst) /\ IsDir(fs, Parent(hist.dst))
    /\ fs' = fs \cup File(hist.dst, "N0", now)
    /\ pc' = "idle"
    /\ UNCHANGED <<games, text, defs, os_guess, direction, now, fsStart, fsPre, hist, lm, calls>>

NextBackup ==
    \/ BackupCall
    \/ Tick
    \/ NewSave

SpecBackup == InitBackup /\ [][NextBackup]_vars

\* C8: backup of a target that does not exist is a no-op, at every call: it
\* returns, the target is still absent, nothing is created in or as the trash.
C8_BackupAbsentNoop ==
    (pc \in {"returned", "raised"} /\ ~Exists(fsPre, hist.dst))
        => pc = "returned" /\ fs = fsPre

C8_Witness ==
    /\ pc = "returned" /\ calls = MaxCalls
    /\ ~Exists(fsPre, hist.dst) /\ ~Exists(fs, hist.dst)
    /\ ~Exists(fs, TRASH_DIR)
    /\ fs = fsStart /\ fs # {}

(***************************************************************************)
(* parse_definition on every short text (specification SpecParse)          *)
(***************************************************************************)
MaxLines == 6

Lines ==
    { <<" ", "windows">>,
      <<"LINUX">>,
      <<"Windows", " ", ":", "/a">>,
      <<"linux", ":", "/b", " ">>,
      <<"mac", ":", "/a">>,
      <<"junk">>,
      <<" ">> }

Texts == UNION {[1..n -> Lines] : n \in 0..MaxLines}

InitParse ==
    /\ text \in Texts
    /\ pc = "parse"
    /\ defs = DefinitionError("")
    /\ fs = {}
    /\ games = [present |-> TRUE, files |-> <<text>>]
    /\ os_guess = <<>>
    /\ direction = ""
    /\ now = 0
    /\ fsStart = {}
    /\ fsPre = {}
    /\ hist = NoHist
    /\ lm = NoScan
    /\ calls = 0

ParseText ==
    /\ pc = "parse"
    /\ defs' = parse_definition(text)
    /\ pc' = "parsed"
    /\ UNCHANGED <<fs, games, text, os_guess, direction, now, fsStart, fsPre, hist, lm, calls>>

NextParse == ParseText

SpecParse == InitParse /\ [][NextParse]_vars

\* The conditions of the claim, read off the text alone.
BlankLine(l) == \A i \in 1..Len(l) : l[i] = " "

SectionLine(l, name) ==
    \E i \in 1..Len(l) : /\ UpperTok(l[i]) = name
                         /\ \A j \in 1..Len(l) : j # i => l[j] = " "

DataLine(l) == ~BlankLine(l) /\ ~SectionLine(l, "WINDOWS") /\ ~SectionLine(l, "LINUX")

\* Line l reads "<k> : ..." up to case and white space, the colon being its first.
KeyLine(l, k) ==
    \E c \in 1..Len(l) :
        /\ l[c] = ":" /\ \A j \in 1..(c - 1) : l[j] # ":"
        /\ \E i \in 1..(c - 1) : /\ LowerTok(l[i]) = k
                                 /\ \A j \in 1..(c - 1) : j # i => l[j] = " "

\* The section line i stands under: the nearest section header above it.
Under(t, i, name) ==
    \E h \in 1..(i - 1) :
        /\ SectionLine(t[h], name)
        /\ \A j \in (h + 1)..(i - 1) :
              ~SectionLine(t[j], "WINDOWS") /\ ~SectionLine(t[j], "LINUX")

ShouldRaise(t) ==
    \/ \E i \in 1..Len(t) :
          /\ DataLine(t[i])
          /\ \/ ~(Under(t, i, "WINDOWS") \/ Under(t, i, "LINUX"))
             \/ \A c \in 1..Len(t[i]) : t[i][c] # ":"
             \/ ~(KeyLine(t[i], "windows") \/ KeyLine(t[i], "linux"))
    \/ \E name \in {"WINDOWS", "LINUX"}, k \in {"windows", "linux"} :
          ~\E i \in 1..Len(t) : DataLine(t[i]) /\ KeyLine(t[i], k) /\ Under(t, i, name)

\* C6: parse_definition raises exactly on the texts the claim lists, and what
\* it returns otherwise has exactly the sections WINDOWS and LINUX, each with
\* exactly the keys windows and linux.
C6_ParseAllOrNothing ==
    pc = "parsed"
        => /\ (defs.error # "") <=> ShouldRaise(text)
           /\ defs.error = ""
                => /\ DOMAIN defs.data = sections
                   /\ \A s \in sections : DOMAIN defs.data[s] = keys

C6_Witness ==
    /\ pc = "parsed" /\ defs.error = ""
    /\ defs.data[<<"WINDOWS">>][<<"windows">>] = <<"/a">>
    /\ defs.data[<<"LINUX">>][<<"linux">>] = <<"/b">>
    /\ text[1] = <<" ", "windows">>

(***************************************************************************)
(* latest_mtime while another process deletes entries (SpecMtime)          *)
(***************************************************************************)
MaxTime == 2

RECURSIVE SeqOf(_)
SeqOf(S) == IF S = {} THEN <<>> ELSE LET x == CHOOSE y \in S : TRUE
                                     IN  <<x>> \o SeqOf(S \ {x})

Children(f, d) == {e.path : e \in {x \in f : Len(x.path) = Len(d) + 1 /\ IsPrefix(d, x.path)}}

ScanRoot == <<"a">>

MtimeTrees ==
    {{}} \cup {File(ScanRoot, "A0", t) : t \in 0..MaxTime}
    \cup { {NewDir(ScanRoot, t1), NewDir(Append(ScanRoot, "s"), t3)}
           \cup File(Append(ScanRoot, "f1"), "A1", t2)
           \cup File(ScanRoot \o <<"s", "f2">>, "A2", t4)
           : t1 \in 0..MaxTime, t2 \in 0..MaxTime, t3 \in 0..MaxTime, t4 \in 0..MaxTime }

\* pathlib up to CPython 3.11 lets the FileNotFoundError of listing a vanished
\* directory out of rglob; from 3.12 on it passes over the directory.
Builds == {"scandir error propagates", "scandir error ignored"}

InitMtime ==
    /\ fs \in MtimeTrees
    /\ \E b \in Builds : lm = [NoScan EXCEPT !.path = ScanRoot, !.build = b]
    /\ pc = "lm_start"
    /\ games = [present |-> FALSE, files |-> <<>>]
    /\ text = <<>>
    /\ defs = DefinitionError("")
    /\ os_guess = <<>>
    /\ direction = ""
    /\ now = 0
    /\ fsStart = fs
    /\ fsPre = fs
    /\ hist = NoHist
    /\ calls = 0

later(t, newest) == IF newest = {} \/ \E n \in newest : t > n THEN {t} ELSE newest

\* latest_mtime, lines 96-101: exists, is_file, the directory's own time.
LmBegin ==
    /\ pc = "lm_start"
    /\ IF ~Exists(fs, lm.path)
       THEN pc' = "lm_done" /\ lm' = [lm EXCEPT !.result = {}]
       ELSE LET e == CHOOSE x \in fs : x.path = lm.path
            IN  IF e.kind = "file"
                THEN pc' = "lm_done" /\ lm' = [lm EXCEPT !.result = {fromtimestamp(e.mtime)}]
                ELSE pc' = "lm_scan"
                     /\ lm' = [lm EXCEPT !.newest = {fromtimestamp(e.mtime)},
                                         !.todo = <<lm.path>>]
    /\ UNCHANGED <<fs, games, text, defs, os_guess, direction, now, fsStart, fsPre, hist, calls>>

\* rglob("*") reaching the next directory: it lists it, to yield its entries
\* and to descend into its subdirectories later.
LmList ==
    /\ pc = "lm_scan" /\ lm.queue = <<>> /\ lm.todo # <<>>
    /\ LET d == Head(lm.todo)
       IN  IF IsDir(fs, d)
           THEN /\ lm' = [lm EXCEPT
                            !.queue = SeqOf(Children(fs, d)),
                            !.todo  = Tail(@) \o SeqOf({c \in Children(fs, d) : IsDir(fs, c)})]
                /\ pc' = pc
           ELSE IF lm.build = "scandir error propagates"
           THEN lm' = [lm EXCEPT !.result = {}, !.aborted = TRUE] /\ pc' = "lm_done"
           ELSE lm' = [lm EXCEPT !.todo = Tail(@)] /\ pc' = pc
    /\ UNCHANGED <<fs, games, text, defs, os_guess, direction, now, fsStart, fsPre, hist, calls>>

\* The body of the loop for one yielded entry: p.stat(), FileNotFoundError skipped.
LmStat ==
    /\ pc = "lm_scan" /\ lm.queue # <<>>
    /\ LET p == Head(lm.queue)
       IN  lm' = [lm EXCEPT
                    !.queue  = Tail(@),
                    !.newest = IF Exists(fs, p)
                               THEN later(fromtimestamp((CHOOSE x \in fs : x.path = p).mtime), @)
                               ELSE @]
    /\ UNCHANGED <<fs, pc, games, text, defs, os_guess, direction, now, fsStart, fsPre, hist, calls>>

LmReturn ==
    /\ pc = "lm_scan" /\ lm.queue = <<>> /\ lm.todo = <<>>
    /\ lm' = [lm EXCEPT !.result = lm.newest]
    /\ pc' = "lm_done"
    /\ UNCHANGED <<fs, games, text, defs, os_guess, direction, now, fsStart, fsPre, hist, calls>>

\* Another process removes an entry below the scanned path, with all in it.
ExternalDelete ==
    /\ pc = "lm_scan"
    /\ \E e \in fs : /\ e.path # lm.path
                     /\ fs' = fs \ Subtree(fs, e.path)
    /\ UNCHANGED <<pc, games, text, defs, os_guess, direction, now, fsStart, fsPre, hist, lm, calls>>

NextMtime ==
    \/ LmBegin
    \/ LmList
    \/ LmStat
    \/ LmReturn
    \/ ExternalDelete

SpecMtime == InitMtime /\ [][NextMtime]_vars

\* C9: None for a path that does not exist, the file's own time for a file,
\* and for a directory a time: at least that of the directory and of every
\* entry still there, at most the latest there was; entries that vanish during
\* the scan are skipped and never turn the result into None.
C9_LatestMtime ==
    pc = "lm_done"
        => IF ~Exists(fsStart, lm.path) THEN lm.result = {}
           ELSE /\ lm.result # {}
                /\ \A r \in lm.result :
                      /\ \A e \in Subtree(fs, lm.path) : fromtimestamp(e.mtime) <= r
                      /\ \E e \in Subtree(fsStart, lm.path) : fromtimestamp(e.mtime) = r

====
